---- MODULE Spec2Model ----
(***************************************************************************)
(* Run-lifecycle and checkpoint-resumption logic of pad_experiments.py:    *)
(* resume_or_start, the learning-rate restore and model construction of    *)
(* main, and the hand-over to the training engine.                         *)
(*                                                                         *)
(* A file or directory name is a sequence of tokens; a token is a word     *)
(* (letters, or one of the separators "=", "-", ".") or a run of digits.   *)
(* A path is a sequence of names.  str.split, Path.stem, Path.parent and   *)
(* int() are computed on these sequences as Python computes them on the    *)
(* strings they stand for.                                                 *)
(***************************************************************************)
EXTENDS Integers, Sequences, FiniteSets, TLC

\* ------------------------------------------------------------------ bounds

\* seconds the clock can show: 0..MaxClock
MaxClock == 1
\* the training loop is cut off (interrupted) after epoch MaxEpoch
MaxEpoch == 4
\* --num_epochs is 1 or MaxNumEpochs in train mode
MaxNumEpochs == 4
\* invocations in one behaviour that get as far as trainer.fit
MaxFits == 1
\* run directories on the disk
MaxRuns == 2
\* optimizer steps per epoch (batches in the training set)
StepsPerEpoch == 2
\* files in the checkpoint directories that the engine did not write
MaxForeignFiles == 1

\* default of --num_epochs
DefaultNumEpochs == 10

\* ------------------------------------------------------------------ names

W(s) == [k |-> "w", w |-> s, n |-> 0]

N(i) == [k |-> "n", w |-> "", n |-> i]

Name(s) == <<W(s)>>

NoPath == <<>>

\* Path.parent
Parent(p) == IF Len(p) = 0 THEN p ELSE SubSeq(p, 1, Len(p) - 1)

\* Path.parent.parent
ParentOfParent(p) == Parent(Parent(p))

\* Path.name
Basename(p) == p[Len(p)]

\* Path.stem: the name without its last suffix
Stem(name) ==
  LET dots == {i \in 2..(Len(name) - 1) : name[i] = W(".")}
  IN  IF dots = {} THEN name
      ELSE SubSeq(name, 1, (CHOOSE i \in dots : \A j \in dots : j <= i) - 1)

RECURSIVE SplitOn(_, _)
\* str.split(sep): the fields between the occurrences of sep
SplitOn(s, sep) ==
  LET hits == {i \in 1..Len(s) : s[i] = sep}
  IN  IF hits = {} THEN <<s>>
      ELSE LET i == CHOOSE h \in hits : \A j \in hits : h <= j
           IN  <<SubSeq(s, 1, i - 1)>> \o SplitOn(SubSeq(s, i + 1, Len(s)), sep)

\* the outcome of an expression: the exception it raised, or its value
Raised(exc) == [ok |-> FALSE, v |-> 0, exc |-> exc]

Value(i) == [ok |-> TRUE, v |-> i, exc |-> ""]

\* int(str): digits, optionally signed; anything else raises ValueError
PyInt(t) ==
  IF Len(t) = 1 /\ t[1].k = "n" THEN Value(t[1].n)
  ELSE IF Len(t) = 2 /\ t[1] = W("-") /\ t[2].k = "n" THEN Value(0 - t[2].n)
  ELSE Raised("ValueError")

EpochOfNamed_LastField(stem) ==
  LET f == SplitOn(stem, W("=")) IN PyInt(f[Len(f)])

\* int(stem.split('=')[1].split('-')[0]): lines 63 and 82
EpochOfNamed(stem) ==
  LET f == SplitOn(stem, W("="))
  IN  IF Len(f) < 2 THEN Raised("IndexError")
      ELSE PyInt(SplitOn(f[2], W("-"))[1])

\* int(x.stem.split('=')[-1]): line 71
EpochOfScanned(stem) ==
  LET f == SplitOn(stem, W("=")) IN PyInt(f[Len(f)])

\* ------------------------------------------------------------------ layout on disk

\* log_path = Path('logs'): line 177
LogPath == <<Name("logs")>>

\* --work_dir as given, or the invocation's timestamp: lines 184-188
Prefix(work_dir, now) == IF work_dir = "" THEN <<N(now)>> ELSE <<W(work_dir)>>

\* log_path / f'{model}' / f'{prefix}': line 101
ModelLogPath(log_path, prefix, m) == log_path \o <<Name(m), prefix>>

RunName_NoClock(now) == <<W("run_"), N(0)>>

\* f'run_{run_ts}' with run_ts = strftime("%Y%m%d%H%M%S"): lines 87-88
RunName(now) == <<W("run_"), N(now)>>

\* run_path / 'checkpoints': lines 71 and 433
CheckpointDir(run_path) == run_path \o <<Name("checkpoints")>>

\* global step recorded in the name of the checkpoint written after epoch e
StepOf(e) == (e + 1) * StepsPerEpoch - 1

\* the engine's default checkpoint name, "epoch=<e>-step=<s>[-v<n>].ckpt"
\* (ModelCheckpoint is built without a filename: lines 432-437)
CkptFile(e, v) ==
  <<W("epoch"), W("="), N(e), W("-"), W("step"), W("="), N(StepOf(e))>>
    \o (IF v = 0 THEN <<>> ELSE <<W("-"), W("v"), N(v)>>)
    \o <<W("."), W("ckpt")>>

\* a file some other tool left in a checkpoint directory
ForeignFile == <<W("last"), W("."), W("ckpt")>>

\* the epoch stored inside a checkpoint the engine wrote
StoredEpoch(name) == name[3].n

\* learning rate the optimizer holds after epoch e, in schedule units
LrAfterEpoch(e) == (MaxEpoch + 2) - e

Models == {"convlstm", "tempcnn", "convstar", "unet", "utae", "simvp"}

\* the branches of main that restore the learning rate: 223, 258, 292, 344
RestoringModels == {"convlstm", "convstar", "unet", "utae"}

\* ------------------------------------------------------------------ state

VARIABLES
  clock,               \* the second of the latest write to the disk: a lower
                       \* bound of what datetime.now() returns from now on
  nfit,                \* invocations so far that got as far as trainer.fit
  model,               \* --model of the invocations of this behaviour
  runs,                \* run directories that exist
  files,               \* entries of the runs' checkpoint directories
  lrs,                 \* run path -> lines of its lrs.txt, where the file exists
  pc,                  \* position of the running invocation in main
  args,                \* parsed arguments
  results_path,        \* main's results_path
  plan,                \* what resume_or_start returned
  ledger_read,         \* whether main opened lrs.txt
  init_learning_rate,  \* main's local of that name
  net,                 \* main's model object
  trainer,             \* arguments given to pl.Trainer for fit
  error                \* the exception that ended the invocation

vars == <<clock, nfit, model, runs, files, lrs, pc, args, results_path,
          plan, ledger_read, init_learning_rate, net, trainer, error>>

fsvars == <<runs, files, lrs>>

NoResume == [kind |-> "none", path |-> NoPath]

ResumeLast == [kind |-> "last", path |-> NoPath]

ResumePath(p) == [kind |-> "path", path |-> p]

NoArgs == [work_dir |-> "", train |-> FALSE, resume |-> NoResume,
           num_epochs |-> 0, load_checkpoint |-> NoPath]

NoPlan == [set |-> FALSE, run_path |-> NoPath, resume_from_checkpoint |-> NoPath,
           max_epoch |-> 0, init_epoch |-> 0]

Unbound == [bound |-> FALSE, v |-> 0]

NoNet == [built |-> FALSE, lr_from |-> "none", lr |-> 0, loaded_from |-> NoPath]

NoTrainer == [set |-> FALSE, max_epochs |-> 0, resume_from_checkpoint |-> NoPath,
              dirpath |-> NoPath, current_epoch |-> 0]

Init ==
  /\ clock = 0
  /\ nfit = 0
  /\ model \in Models
  /\ runs = {}
  /\ files = {}
  /\ lrs = [r \in {} |-> <<>>]
  /\ pc = "idle"
  /\ args = NoArgs
  /\ results_path = NoPath
  /\ plan = NoPlan
  /\ ledger_read = FALSE
  /\ init_learning_rate = Unbound
  /\ net = NoNet
  /\ trainer = NoTrainer
  /\ error = ""

\* ------------------------------------------------------------------ directory reads

GlobRuns_AnyRoot(root) == {r \in runs : Basename(r)[1] = W("run_")}

\* results_path.glob('run_*'): line 68
GlobRuns(root) == {r \in runs : Parent(r) = root /\ Basename(r)[1] = W("run_")}

RunLess_Reversed(a, b) == Basename(a)[2].n > Basename(b)[2].n

\* order of sorted() on the run paths: line 68.  The names are "run_" and
\* the fourteen digits of %Y%m%d%H%M%S, so the order of the strings is the
\* order of the seconds
RunLess(a, b) == Basename(a)[2].n < Basename(b)[2].n

LatestRun_First(rs) == CHOOSE r \in rs : \A q \in rs : ~RunLess(q, r)

\* sorted(...)[-1]: line 69
LatestRun(rs) == CHOOSE r \in rs : \A q \in rs : ~RunLess(r, q)

\* (run_path / 'checkpoints').glob('*'): line 71
GlobCheckpoints(run_path) == {f \in files : Parent(f) = CheckpointDir(run_path)}

\* key of one entry in the epoch_ckpt comprehension: line 71
ScannedKey(f) == EpochOfScanned(Stem(Basename(f)))

\* sorted(epoch_ckpt.keys())[-1]: line 72
LastKey(keys) == CHOOSE k \in keys : \A j \in keys : j <= k

\* the ledger line the restore loop ends on: lines 226-229
RestoreLr(lines, init_epoch) ==
  LET hits == {i \in 1..Len(lines) : lines[i].epoch = init_epoch}
  IN  IF hits = {} THEN Unbound
      ELSE [bound |-> TRUE,
            v |-> lines[CHOOSE i \in hits : \A j \in hits : j <= i].lr]

\* an exception, or exit(1), ends main
Fail(what) ==
  /\ pc' = "error"
  /\ error' = what

\* ------------------------------------------------------------------ main, up to resume_or_start

Args(wd, tr, rs, ne, lc) ==
  [work_dir |-> wd, train |-> tr, resume |-> rs, num_epochs |-> ne,
   load_checkpoint |-> lc]

\* values of --num_epochs in train mode: type=int takes any integer, a
\* negative one included
NumEpochs == {-1, 1, MaxNumEpochs}

\* argument parsing, the prefix (from the clock read at line 185, unless
\* --work_dir is given) and create_model_log_path: lines 160, 183-188, 213
Parsed(a, now) ==
  /\ pc = "idle"
  /\ args' = a
  /\ results_path' = ModelLogPath(LogPath, Prefix(a.work_dir, now), model)

\* what datetime.now() may return: this second or a later one
Now == clock..MaxClock

\* train mode off and no --load_checkpoint: lines 162-164
InvokeNoCheckpoint ==
  /\ pc = "idle"
  /\ \E rs \in {NoResume, ResumeLast} :
       args' = Args("w", FALSE, rs, DefaultNumEpochs, NoPath)
  /\ Fail("exit(1)")
  /\ UNCHANGED <<clock, nfit, model, fsvars, results_path, plan, ledger_read,
                 init_learning_rate, net, trainer>>

\* ------------------------------------------------------------------ resume_or_start

Returned(run_path, resume_from_checkpoint, max_epoch, init_epoch) ==
  [set |-> TRUE, run_path |-> run_path,
   resume_from_checkpoint |-> resume_from_checkpoint,
   max_epoch |-> max_epoch, init_epoch |-> init_epoch]

\* the branch for a given checkpoint, in train mode or not: lines 61-65, 80-84
NamedPlan(ckpt, span) ==
  LET init_epoch == EpochOfNamed(Stem(Basename(ckpt)))
  IN  IF init_epoch.ok
      THEN Returned(ParentOfParent(ckpt), ckpt, init_epoch.v + span, init_epoch.v)
      ELSE NoPlan

\* the exception that branch ends in when the name holds no epoch
NamedError(ckpt) == EpochOfNamed(Stem(Basename(ckpt))).exc

FreshPlan_OneMore(run_path, num_epochs) == Returned(run_path, NoPath, num_epochs + 1, 0)

\* lines 90-92
FreshPlan(run_path, num_epochs) == Returned(run_path, NoPath, num_epochs, 0)

\* if not train: lines 59-65.  --work_dir only decides results_path, which
\* this branch does not read; --resume is only compared with None
InvokeEvaluate ==
  /\ \E lc \in files : \E rs \in {NoResume, ResumeLast, ResumePath(lc)} :
       /\ Parsed(Args("w", FALSE, rs, DefaultNumEpochs, lc), clock)
       /\ LET p == NamedPlan(lc, 1)
          IN  IF p.set
              THEN plan' = p /\ pc' = "construct" /\ UNCHANGED error
              ELSE Fail(NamedError(lc)) /\ UNCHANGED plan
  /\ UNCHANGED <<clock, nfit, model, fsvars, ledger_read, init_learning_rate,
                 net, trainer>>

\* elif resume == 'last': lines 66-77
InvokeLast ==
  /\ \E wd \in {"", "w"}, ne \in NumEpochs, now \in Now :
       Parsed(Args(wd, TRUE, ResumeLast, ne, NoPath), now)
  /\ LET run_paths == GlobRuns(results_path')
         run_path == LatestRun(run_paths)
         entries == GlobCheckpoints(run_path)
         keys == {ScannedKey(f).v : f \in entries}
     IN  IF run_paths = {}
         THEN Fail("IndexError") /\ UNCHANGED plan
         ELSE IF \E f \in entries : ~ScannedKey(f).ok
         THEN Fail("ValueError") /\ UNCHANGED plan
         ELSE IF keys = {}
         THEN Fail("IndexError") /\ UNCHANGED plan
         ELSE \E ckpt_path \in {f \in entries : ScannedKey(f).v = LastKey(keys)} :
                /\ plan' = Returned(run_path, ckpt_path,
                                    LastKey(keys) + args'.num_epochs, LastKey(keys))
                /\ pc' = "construct"
                /\ UNCHANGED error
  /\ UNCHANGED <<clock, nfit, model, fsvars, ledger_read, init_learning_rate,
                 net, trainer>>

\* elif resume is not None: lines 78-84.  --work_dir only decides
\* results_path, which this branch does not read
InvokeNamed ==
  /\ \E f \in files, ne \in NumEpochs :
       /\ Parsed(Args("w", TRUE, ResumePath(f), ne, NoPath), clock)
       /\ LET p == NamedPlan(f, ne)
          IN  IF p.set
              THEN plan' = p /\ pc' = "construct" /\ UNCHANGED error
              ELSE Fail(NamedError(f)) /\ UNCHANGED plan
  /\ UNCHANGED <<clock, nfit, model, fsvars, ledger_read, init_learning_rate,
                 net, trainer>>

\* elif train: lines 85-92.  The clock is read a second time at line 87, in
\* the second of the read of line 185 or in a later one
InvokeFresh ==
  /\ \E wd \in {"", "w"}, ne \in NumEpochs, first \in Now :
       Parsed(Args(wd, TRUE, NoResume, ne, NoPath), first)
  /\ \E now \in Now :
       LET run_path == results_path' \o <<RunName(now)>>
       IN  /\ args'.work_dir = "" => Basename(results_path')[1].n <= now
           /\ Cardinality(runs \cup {run_path}) <= MaxRuns
           /\ clock' = now
           /\ runs' = runs \cup {run_path}
           /\ lrs' = [r \in runs' |-> IF r \in runs THEN lrs[r] ELSE <<>>]
           /\ plan' = FreshPlan(run_path, args'.num_epochs)
  /\ pc' = "construct"
  /\ UNCHANGED <<nfit, model, files, ledger_read, init_learning_rate, net, trainer,
                 error>>

\* ------------------------------------------------------------------ main, model construction

\* lines of run_path / 'lrs.txt'; no line: the file does not exist
LedgerOf(run_path) == IF run_path \in DOMAIN lrs THEN lrs[run_path] ELSE <<>>

\* Model(run_path, ..., learning_rate=...), then load_from_checkpoint when
\* not in train mode: lines 231-244
Built(lr_from, lr) ==
  [built |-> TRUE, lr_from |-> lr_from, lr |-> lr,
   loaded_from |-> IF args.train THEN NoPath ELSE plan.resume_from_checkpoint]

AfterConstruct == IF args.train THEN "fit" ELSE "test"

\* the convlstm, convstar, unet and utae branches: lines 223-244, 258-278,
\* 292-315, 344-375
ConstructRestoring ==
  /\ pc = "construct"
  /\ model \in RestoringModels
  /\ IF args.resume.kind # "none"
     THEN /\ ledger_read' = TRUE
          /\ IF LedgerOf(plan.run_path) = <<>>
             THEN /\ Fail("FileNotFoundError")
                  /\ UNCHANGED <<init_learning_rate, net>>
             ELSE /\ init_learning_rate' = RestoreLr(LedgerOf(plan.run_path), plan.init_epoch)
                  /\ IF init_learning_rate'.bound
                     THEN /\ net' = Built("restored", init_learning_rate'.v)
                          /\ pc' = AfterConstruct
                          /\ UNCHANGED error
                     ELSE /\ Fail("UnboundLocalError")
                          /\ UNCHANGED net
     ELSE /\ net' = Built("default", 0)
          /\ pc' = AfterConstruct
          /\ UNCHANGED <<ledger_read, init_learning_rate, error>>

\* the tempcnn branch reads args.window_len, which the parser never
\* defines: lines 317-327
ConstructTempCNN ==
  /\ pc = "construct"
  /\ model = "tempcnn"
  /\ Fail("AttributeError")
  /\ UNCHANGED <<ledger_read, init_learning_rate, net>>

\* the simvp branch builds with learning_rate=0.001 and then loads
\* ./checkpoint.pth, a file of the working directory that is there or
\* not: lines 377-411
ConstructSimVP ==
  /\ pc = "construct"
  /\ model = "simvp"
  /\ \/ /\ net' = Built("fixed", 0)
        /\ pc' = AfterConstruct
        /\ UNCHANGED error
     \/ /\ Fail("FileNotFoundError")
        /\ UNCHANGED net
  /\ UNCHANGED <<ledger_read, init_learning_rate>>

Construct ==
  /\ \/ ConstructRestoring
     \/ ConstructTempCNN
     \/ ConstructSimVP
  /\ UNCHANGED <<clock, nfit, model, fsvars, args, results_path, plan, trainer>>

\* ------------------------------------------------------------------ hand-over to the engine

\* max_epochs=max_epoch + 1: line 446
LastEpochBound(max_epoch) == max_epoch + 1

\* ModelCheckpoint, logger and pl.Trainer for fit: lines 427-458
FitStart ==
  /\ pc = "fit"
  /\ nfit < MaxFits
  /\ nfit' = nfit + 1
  /\ trainer' = [set |-> TRUE,
                 max_epochs |-> LastEpochBound(plan.max_epoch),
                 resume_from_checkpoint |-> plan.resume_from_checkpoint,
                 dirpath |-> CheckpointDir(plan.run_path),
                 current_epoch |->
                   IF plan.resume_from_checkpoint = NoPath THEN 0
                   ELSE StoredEpoch(Basename(plan.resume_from_checkpoint)) + 1]
  /\ pc' = "fitting"
  /\ UNCHANGED <<clock, model, fsvars, args, results_path, plan, ledger_read,
                 init_learning_rate, net, error>>

\* the process ends; the next invocation starts from nothing but the disk
ProcessEnds ==
  /\ pc' = "idle"
  /\ args' = NoArgs
  /\ results_path' = NoPath
  /\ plan' = NoPlan
  /\ ledger_read' = FALSE
  /\ init_learning_rate' = Unbound
  /\ net' = NoNet
  /\ trainer' = NoTrainer
  /\ error' = ""
  /\ UNCHANGED <<clock, nfit, model, fsvars>>

\* the first free name for the checkpoint of epoch e in dir
WrittenCheckpoint(dir, e) ==
  LET free == {v \in 0..MaxFits : dir \o <<CkptFile(e, v)>> \notin files}
  IN  dir \o <<CkptFile(e, CHOOSE v \in free : \A u \in free : v <= u)>>

\* "<epoch>: <lr>" appended to lrs.txt after an epoch
LedgerAppend(lines, e, lr) == Append(lines, [epoch |-> e, lr |-> lr])

\* one epoch of trainer.fit: line 459
FitEpoch ==
  /\ pc = "fitting"
  /\ trainer.current_epoch < trainer.max_epochs
  /\ trainer.current_epoch <= MaxEpoch
  /\ files' = files \cup {WrittenCheckpoint(trainer.dirpath, trainer.current_epoch)}
  /\ lrs' = [lrs EXCEPT ![plan.run_path] =
               LedgerAppend(@, trainer.current_epoch, LrAfterEpoch(trainer.current_epoch))]
  /\ trainer' = [trainer EXCEPT !.current_epoch = @ + 1]
  /\ UNCHANGED <<clock, nfit, model, runs, pc, args, results_path, plan,
                 ledger_read, init_learning_rate, net, error>>

\* trainer.fit returns, the test pass runs and main returns: lines 459-475
FitDone ==
  /\ pc = "fitting"
  /\ trainer.current_epoch >= trainer.max_epochs
  /\ ProcessEnds

\* the process is stopped before trainer.fit has written anything, or
\* after epoch MaxEpoch: lines 427-459
Interrupt ==
  /\ \/ pc = "fit"
     \/ /\ pc = "fitting"
        /\ trainer.current_epoch < trainer.max_epochs
        /\ trainer.current_epoch > MaxEpoch
  /\ ProcessEnds

\* evaluate-only: the test pass runs and main returns: lines 477-492
Test ==
  /\ pc = "test"
  /\ ProcessEnds

\* the exception, or exit(1), ends the process
Exit ==
  /\ pc = "error"
  /\ ProcessEnds

\* ------------------------------------------------------------------ environment

\* between invocations, a file that is no checkpoint of the engine appears
\* in a run's checkpoint directory, where glob('*') will list it: line 71
PlaceForeignFile ==
  /\ pc = "idle"
  /\ Cardinality({f \in files : Basename(f) = ForeignFile}) < MaxForeignFiles
  /\ \E r \in runs :
       /\ CheckpointDir(r) \o <<ForeignFile>> \notin files
       /\ files' = files \cup {CheckpointDir(r) \o <<ForeignFile>>}
  /\ UNCHANGED <<clock, nfit, model, runs, lrs, pc, args, results_path, plan,
                 ledger_read, init_learning_rate, net, trainer, error>>

Next ==
  \/ InvokeNoCheckpoint
  \/ InvokeEvaluate
  \/ InvokeLast
  \/ InvokeNamed
  \/ InvokeFresh
  \/ Construct
  \/ FitStart
  \/ FitEpoch
  \/ FitDone
  \/ Interrupt
  \/ Test
  \/ Exit
  \/ PlaceForeignFile

Spec == Init /\ [][Next]_vars

\* ------------------------------------------------------------------ the claims' vocabulary

\* the invocation mode, from the arguments alone
EvaluateOnly == pc # "idle" /\ ~args.train /\ args.load_checkpoint # NoPath

ResumeLastMode == pc # "idle" /\ args.train /\ args.resume.kind = "last"

ResumeNamedMode == pc # "idle" /\ args.train /\ args.resume.kind = "path"

FreshStartMode == pc # "idle" /\ args.train /\ args.resume.kind = "none"

\* positions of an "epoch=<N>" token in a name: the marker, "=", and an
\* integer that ends the name or is followed by a separator
EpochTokens(name) ==
  {i \in 1..(Len(name) - 2) :
     /\ name[i] = W("epoch")
     /\ name[i + 1] = W("=")
     /\ name[i + 2].k = "n"
     /\ i + 2 < Len(name) => name[i + 3] \in {W("-"), W(".")}}

EmbedsEpoch(path) == EpochTokens(Basename(path)) # {}

\* the N of the name's epoch=<N> token
EmbeddedEpoch(path) ==
  LET name == Basename(path) IN name[(CHOOSE i \in EpochTokens(name) : TRUE) + 2].n

\* the run directories directly under a results root
RunDirsUnder(root) == {r \in runs : Len(r) = Len(root) + 1 /\ SubSeq(r, 1, Len(root)) = root}

\* the run with the greatest name (the names differ in their timestamps)
NewestRunUnder(root) ==
  CHOOSE r \in RunDirsUnder(root) :
    \A q \in RunDirsUnder(root) : r[Len(r)][2].n >= q[Len(q)][2].n

\* the entries of a run's checkpoint directory
EntriesOf(run) ==
  {f \in files : Len(f) = Len(run) + 2 /\ SubSeq(f, 1, Len(run)) = run
                                         /\ f[Len(run) + 1] = Name("checkpoints")}

\* the lines of a run's ledger whose first field is e
LedgerLines(run, e) ==
  IF run \in DOMAIN lrs THEN {i \in 1..Len(lrs[run]) : lrs[run][i].epoch = e} ELSE {}

\* ------------------------------------------------------------------ C1

\* C1: resume-last round trip.  When the latest run holds exactly the
\* engine's checkpoints of epochs 0..4 and ledger lines for epochs 0..4, an
\* invocation with train and resume="last" resolves to start_epoch 4,
\* end_epoch 4 + num_epochs and the epoch-4 checkpoint, and the model is
\* built with the learning rate of the ledger's epoch-4 line.
C1_ResumeLastRoundTrip ==
  (/\ ResumeLastMode
   /\ pc \in {"construct", "fit", "error"}
   /\ RunDirsUnder(results_path) # {}
   /\ LET run == NewestRunUnder(results_path)
      IN  /\ EntriesOf(run) = {CheckpointDir(run) \o <<CkptFile(e, 0)>> : e \in 0..4}
          /\ run \in DOMAIN lrs
          /\ Len(lrs[run]) = 5
          /\ \A i \in 1..5 : lrs[run][i].epoch = i - 1)
  => LET run == NewestRunUnder(results_path)
     IN  /\ plan.set
         /\ plan.run_path = run
         /\ plan.init_epoch = 4
         /\ plan.max_epoch = 4 + args.num_epochs
         /\ plan.resume_from_checkpoint = CheckpointDir(run) \o <<CkptFile(4, 0)>>
         /\ pc = "fit" => net.lr_from = "restored" /\ net.lr = lrs[run][5].lr

\* ------------------------------------------------------------------ C2

\* C2: one epoch-parsing rule.  For every checkpoint on the disk whose name
\* embeds an epoch=<N> token, the key the resume-last scanner gives it and
\* the epoch the evaluate-only and explicit-resume branches parse from it
\* are both N.
C2_OneEpochParsingRule ==
  \A f \in files :
    EmbedsEpoch(f) =>
      /\ ScannedKey(f) = Value(EmbeddedEpoch(f))
      /\ EpochOfNamed(Stem(Basename(f))) = Value(EmbeddedEpoch(f))

\* ------------------------------------------------------------------ C3

\* C3: evaluate-only has priority and never restores a learning rate.  With
\* train off, whatever --resume is, the plan is (parent-of-parent of
\* load_checkpoint, load_checkpoint, epoch of its name, that epoch + 1) and
\* lrs.txt is not read.
C3_EvaluateOnlyNeverRestores ==
  EvaluateOnly =>
    /\ ~ledger_read
    /\ ~init_learning_rate.bound
    /\ EmbedsEpoch(args.load_checkpoint) =>
         plan = Returned(SubSeq(args.load_checkpoint, 1, Len(args.load_checkpoint) - 2),
                         args.load_checkpoint,
                         EmbeddedEpoch(args.load_checkpoint) + 1,
                         EmbeddedEpoch(args.load_checkpoint))

\* ------------------------------------------------------------------ C4

\* C4: a missing ledger entry is fatal.  A resume-last or resume-named
\* invocation whose lrs.txt has no line for the resolved start epoch never
\* gets to a constructed model.
C4_MissingLedgerEntryIsFatal ==
  (/\ ResumeLastMode \/ ResumeNamedMode
   /\ plan.set
   /\ pc \in {"construct", "fit", "error"}
   /\ LedgerLines(plan.run_path, plan.init_epoch) = {})
  => ~net.built /\ pc # "fit"

\* ------------------------------------------------------------------ C5

\* C5: the learning rate is restored exactly on mid-training resumes.  For
\* every model, lrs.txt is read and the model built with the line of the
\* start epoch iff the mode is resume-last or resume-named; fresh starts and
\* evaluate-only invocations never read it.
C5_RestoredIffMidTrainingResume ==
  /\ (pc # "idle" /\ ledger_read) => (ResumeLastMode \/ ResumeNamedMode)
  /\ pc \in {"fit", "test"} =>
       IF ResumeLastMode \/ ResumeNamedMode
       THEN /\ ledger_read
            /\ net.lr_from = "restored"
            /\ \E i \in LedgerLines(plan.run_path, plan.init_epoch) :
                 net.lr = lrs[plan.run_path][i].lr
       ELSE net.lr_from # "restored"

\* ------------------------------------------------------------------ C6

\* C6: passive scanning skips unparsable entries.  In resume-last mode, when
\* the latest run's checkpoint directory holds entries with an epoch token
\* and entries without one, resolution succeeds with the greatest epoch
\* among the former.
C6_ScanSkipsUnparsable ==
  (/\ ResumeLastMode
   /\ pc \in {"construct", "fit", "error"}
   /\ RunDirsUnder(results_path) # {}
   /\ LET entries == EntriesOf(NewestRunUnder(results_path))
      IN  /\ \E f \in entries : EmbedsEpoch(f)
          /\ \E f \in entries : ~EmbedsEpoch(f))
  => LET parsable == {f \in EntriesOf(NewestRunUnder(results_path)) : EmbedsEpoch(f)}
     IN  /\ plan.set
         /\ plan.resume_from_checkpoint \in parsable
         /\ \A f \in parsable : EmbeddedEpoch(f) <= plan.init_epoch
         /\ plan.init_epoch = EmbeddedEpoch(plan.resume_from_checkpoint)

\* ------------------------------------------------------------------ C7

\* C7: epoch bounds reach the engine verbatim.  The last-epoch bound, the
\* checkpoint and the run path given to the trainer for fit are the plan's
\* end_epoch, checkpoint_to_load and run_path.
C7_BoundsReachEngineVerbatim ==
  trainer.set =>
    /\ trainer.max_epochs = plan.max_epoch
    /\ trainer.resume_from_checkpoint = plan.resume_from_checkpoint
    /\ trainer.dirpath = plan.run_path \o <<Name("checkpoints")>>
    /\ trainer.max_epochs = plan.init_epoch + args.num_epochs

\* ------------------------------------------------------------------ C8

\* C8: explicit resume depends on the checkpoint reference alone.  With
\* train and resume = a checkpoint path whose name embeds epoch=k, the plan
\* is (the path less its last two components, the path, k + num_epochs, k),
\* whatever the disk holds.
C8_ExplicitResumeByPathAlone ==
  (ResumeNamedMode /\ EmbedsEpoch(args.resume.path)) =>
    plan = Returned(SubSeq(args.resume.path, 1, Len(args.resume.path) - 2),
                    args.resume.path,
                    EmbeddedEpoch(args.resume.path) + args.num_epochs,
                    EmbeddedEpoch(args.resume.path))

\* an explicit resume from a checkpoint that is not the latest of its run,
\* in a run that is not the latest of its results root
C8_Witness ==
  /\ ResumeNamedMode
  /\ pc = "construct"
  /\ plan.set
  /\ \E f \in EntriesOf(plan.run_path) :
       EmbedsEpoch(f) /\ EmbeddedEpoch(f) > plan.init_epoch
  /\ \E r \in RunDirsUnder(SubSeq(plan.run_path, 1, Len(plan.run_path) - 1)) :
       r[Len(r)][2].n > plan.run_path[Len(plan.run_path)][2].n

\* ------------------------------------------------------------------ C9

\* C9: resume-last never falls back silently.  With train and
\* resume="last", when the results root holds no run directory, or its
\* latest run holds no checkpoint, the invocation ends in an error with no
\* plan, and it creates no directory and no file.
C9_ResumeLastNeverFallsBack ==
  /\ [](( /\ ResumeLastMode
          /\ \/ RunDirsUnder(results_path) = {}
             \/ EntriesOf(NewestRunUnder(results_path)) = {})
        => (pc = "error" /\ ~plan.set))
  /\ [][(pc = "idle" /\ pc' # "idle" /\ args'.train /\ args'.resume.kind = "last")
        => (runs' = runs /\ files' = files /\ lrs' = lrs)]_vars

\* resume-last has failed on a latest run without checkpoints while an
\* older run of the same results root holds some
C9_Witness ==
  /\ ResumeLastMode
  /\ pc = "error"
  /\ RunDirsUnder(results_path) # {}
  /\ EntriesOf(NewestRunUnder(results_path)) = {}
  /\ \E r \in RunDirsUnder(results_path) : EntriesOf(r) # {}

\* ------------------------------------------------------------------ C10

\* C10: fresh start.  With train and no --resume, on a results root that
\* holds no run directory, the plan is (run_path, no checkpoint,
\* num_epochs, 0) and afterwards the results root holds exactly one run
\* directory, run_path.
C10_FreshStartOnEmptyRoot ==
  [][(/\ pc = "idle"
      /\ pc' # "idle"
      /\ args'.train
      /\ args'.resume.kind = "none"
      /\ {r \in runs : SubSeq(r, 1, Len(r) - 1) = results_path'} = {})
     => /\ pc' = "construct"
        /\ plan'.set
        /\ plan'.init_epoch = 0
        /\ plan'.max_epoch = args'.num_epochs
        /\ plan'.resume_from_checkpoint = NoPath
        /\ {r \in runs' : SubSeq(r, 1, Len(r) - 1) = results_path'} = {plan'.run_path}
        /\ files' = files]_vars

\* a fresh start has just resolved on a results root whose only run
\* directory is the one it made
C10_Witness ==
  /\ FreshStartMode
  /\ pc = "construct"
  /\ plan.set
  /\ plan.init_epoch = 0
  /\ plan.max_epoch = args.num_epochs
  /\ RunDirsUnder(results_path) = {plan.run_path}
  /\ EntriesOf(plan.run_path) = {}

\* ------------------------------------------------------------------ C11

\* C11: every plan resume_or_start returns, in each mode and for every
\* --num_epochs the parser lets through, has start_epoch <= end_epoch.
C11_StartNotAfterEnd ==
  plan.set => plan.init_epoch <= plan.max_epoch

\* ------------------------------------------------------------------ C12

\* the second in a run directory's name
RunSecond(run) == run[Len(run)][2].n

\* C12: run ordering.  Among the run directories that fresh starts made at
\* distinct seconds under one results root, resume-last selects the one
\* with the greatest name, and that one is the one made last: a fresh start
\* never makes a run whose name is below that of a run already there.
C12_LatestRunIsNewest ==
  /\ []((ResumeLastMode /\ plan.set) =>
          /\ plan.run_path \in RunDirsUnder(results_path)
          /\ \A q \in RunDirsUnder(results_path) : RunSecond(q) <= RunSecond(plan.run_path))
  /\ [][\A r \in runs' \ runs :
          \A q \in runs : Len(q) = Len(r) /\ SubSeq(q, 1, Len(q) - 1) = SubSeq(r, 1, Len(r) - 1)
                          => RunSecond(q) < RunSecond(r)]_vars

\* resume-last has resolved under a results root with two runs of distinct
\* seconds, to the later one
C12_Witness ==
  /\ ResumeLastMode
  /\ pc = "construct"
  /\ plan.set
  /\ \E q \in RunDirsUnder(results_path) : RunSecond(q) < RunSecond(plan.run_path)

\* ------------------------------------------------------------------ C13

====
